---- MODULE Spec2Model ----
(***************************************************************************)
(* Model of ws.py: the main sequence (config, logging, -log short-circuit) *)
(* and the supervision of the one child HTTP server in start_web_server,   *)
(* including the control flow of exceptions (SystemExit, KeyboardInterrupt,*)
(* errors raised by process creation) through the with/try/finally blocks. *)
(***************************************************************************)
EXTENDS Integers, FiniteSets, Sequences, TLC

\* ------------------------------------------------------------------ bounds
\* Number of interrupt signals (Ctrl+C) the environment delivers in one run.
MaxInterrupts == 2

\* Exit codes a child may exit with, and statuses of a child ended by a
\* signal (Popen.returncode is -signum), drawn by the environment.
ChildExitCodes == {0, 1, 17, 255}
ChildSignalStatuses == {-15, -9}

\* Bits of the terminal's local-mode flag word (attrs[3]) and input-mode
\* word (attrs[0]) that the environment may have set at startup.
LFlagBits == {"ECHO", "ECHOCTL", "ISIG"}
IFlagBits == {"ICRNL"}

\* Python's None and a value that is present: an optional value is a sequence
\* of length at most one.
None == <<>>
Some(x) == <<x>>

\* ---------------------------------------------------------------- state
VARIABLES
    pc,             \* position of the main thread in ws.py
    args_log,       \* args.log (the -log flag)
    logFileAtStart, \* whether the log file existed when the process started
    logFileExists,  \* whether the log file exists now
    printed,        \* what tail_log printed: "nothing", "notfound", "lines"
    probed,         \* is_port_in_use has been called
    portBound,      \* result of is_port_in_use (None before the call)
    isatty,         \* sys.stdin.isatty()
    term0,          \* terminal attributes at process start
    term,           \* terminal attributes now
    term_settings,  \* local of start_web_server: None or the captured attrs
    tcError,        \* a termios call raised termios.error in this run
    restoreInvoked, \* restore_terminal(term_settings) was called
    restoreApplied, \* restore_terminal's tcsetattr succeeded
    launched,       \* Popen outcome: "no" (not called), "ok", "failed"
    child,          \* "none", "running", "zombie" (exited, unreaped), "reaped"
    childStatus,    \* None or the status the child ended with
    returncode,     \* proc.returncode
    sigintWait,     \* proc._sigint_wait_secs > 0
    signals,        \* sequence of signals the supervisor sent to the child
    graceExpired,   \* proc.wait(timeout=5) raised TimeoutExpired
    exc,            \* exception propagating in the main thread
    logged,         \* set of <<levelname, message>> records handed to logger
    nInt,           \* number of interrupts delivered so far
    intAt,          \* set of positions at which an interrupt was delivered
    exitHow,        \* "running", "return", "sys_exit", "uncaught", "sigint"
    exitCode,       \* process exit status (None while running / on sigint)
    \* -- configuration file (load_config, write_config, setup_logging)
    cwd,            \* os.getcwd() when DEFAULT_CONFIG is built
    cfgFile,        \* content of ~/.config/ws/config.json
    config,         \* the dict load_config returned (None before)
    handlerArgs,    \* maxBytes / backupCount given to RotatingFileHandler
    cfgRun,         \* number of the current run of the program (1, 2, ...)
    fileAfterRun1,  \* cfgFile as the first run left it (None before)
    \* -- logger sinks (setup_logging)
    cliLevel,       \* args.log_level (None when the flag is absent)
    cfgLevel,       \* config["LOG_LEVEL"]
    handlers,       \* logging.getLogger().handlers
    setupCalls,     \* number of calls of setup_logging so far
    records,        \* levels of the records logged since the last setup
    consoleOut,     \* levels of the lines written to stdout since then
    fileOut,        \* levels of the lines written to the log file since then
    \* -- rotating log file (RotatingFileHandler)
    maxBytes,       \* handler.maxBytes
    backupCount,    \* handler.backupCount
    active,         \* ws.log: sequence of record lines
    backups,        \* ws.log.1, ws.log.2, ...: None or the file's lines
    written,        \* every record line emitted so far, in order
    \* -- port probe (is_port_in_use)
    port,           \* args.port
    net,            \* what the network answers to a connect to localhost
    sock,           \* probe socket: "none", "open", "closed"
    probeResult     \* None, or the value returned / the exception raised

mainVars == <<args_log, logFileAtStart, logFileExists, printed>>
termVars == <<isatty, term0, term, term_settings, tcError, restoreInvoked,
              restoreApplied>>
childVars == <<launched, child, childStatus, returncode, sigintWait, signals,
               graceExpired>>
intVars == <<nInt, intAt>>
exitVars == <<exitHow, exitCode>>
cfgVars == <<cwd, cfgFile, config, handlerArgs, cfgRun, fileAfterRun1>>
logVars == <<cliLevel, cfgLevel, handlers, setupCalls, records, consoleOut,
             fileOut>>
rotVars == <<maxBytes, backupCount, active, backups, written>>
probeVars == <<port, net, sock, probeResult>>
\* State of the parts that are modelled by specifications of their own.
libVars == <<cfgVars, logVars, rotVars, probeVars>>
\* State of the supervision, the position aside.
supVars == <<mainVars, probed, portBound, termVars, childVars, exc, logged,
             intVars, exitVars>>

vars == <<pc, args_log, logFileAtStart, logFileExists, printed, probed,
          portBound, isatty, term0, term, term_settings, tcError,
          restoreInvoked, restoreApplied, launched, child, childStatus,
          returncode, sigintWait, signals, graceExpired, exc, logged, nInt,
          intAt, exitHow, exitCode, libVars>>

\* ------------------------------------------------------------ exceptions
NoExc == [kind |-> "none", code |-> 0]
Raise(k) == [kind |-> k, code |-> 0]
SystemExit(n) == [kind |-> "SystemExit", code |-> n]

\* Direct base class of each exception class the program can meet.
BaseOf(cls) ==
    CASE cls = "CalledProcessError" -> "SubprocessError"
      [] cls = "SubprocessError"    -> "Exception"
      [] cls = "FileNotFoundError"  -> "OSError"
      [] cls = "OSError"            -> "Exception"
      [] cls = "termios.error"      -> "Exception"
      [] cls = "Exception"          -> "BaseException"
      [] cls = "KeyboardInterrupt"  -> "BaseException"
      [] cls = "SystemExit"         -> "BaseException"
      [] OTHER                      -> "BaseException"

RECURSIVE IsSubclass(_, _)
IsSubclass(cls, handler) ==
    IF cls = handler THEN TRUE
    ELSE IF cls = "BaseException" THEN FALSE
    ELSE IsSubclass(BaseOf(cls), handler)

\* sys.exit(n) / interpreter shutdown: the status the parent shell sees.
ExitStatus(n) == n % 256

\* The process ends because exception e reached the top of the main thread
\* (e = NoExc: main returned).
ProcessEnds(e) ==
    /\ pc' = "done"
    /\ exc' = e
    /\ exitHow' = CASE e.kind = "none" -> "return"
                    [] e.kind = "SystemExit" -> "sys_exit"
                    [] e.kind = "KeyboardInterrupt" -> "sigint"
                    [] OTHER -> "uncaught"
    /\ exitCode' = CASE e.kind = "none" -> Some(0)
                     [] e.kind = "SystemExit" -> Some(ExitStatus(e.code))
                     [] e.kind = "KeyboardInterrupt" -> None
                     [] OTHER -> Some(1)

\* Terminal attributes: the words of the list termios.tcgetattr returns.
TermAttrs == [iflag : SUBSET IFlagBits, lflag : SUBSET LFlagBits]

\* The supervision before main has started, with the given -log flag and
\* environment.
SupInit(log, logFile, tty, attrs) ==
    /\ args_log = log
    /\ logFileAtStart = logFile
    /\ logFileExists = logFileAtStart
    /\ printed = "nothing"
    /\ probed = FALSE
    /\ portBound = None
    /\ isatty = tty
    /\ term0 = attrs
    /\ term = term0
    /\ term_settings = None
    /\ tcError = FALSE
    /\ restoreInvoked = FALSE
    /\ restoreApplied = FALSE
    /\ launched = "no"
    /\ child = "none"
    /\ childStatus = None
    /\ returncode = None
    /\ sigintWait = TRUE
    /\ signals = <<>>
    /\ graceExpired = FALSE
    /\ exc = NoExc
    /\ logged = {}
    /\ nInt = 0
    /\ intAt = {}
    /\ exitHow = "running"
    /\ exitCode = None

\* The parts with specifications of their own, at rest.
CfgIdle ==
    /\ cwd = "/srv"
    /\ cfgFile = [kind |-> "absent", obj |-> <<>>]
    /\ config = None
    /\ handlerArgs = None
    /\ cfgRun = 1
    /\ fileAfterRun1 = None

LogIdle ==
    /\ cliLevel = None
    /\ cfgLevel = "INFO"
    /\ handlers = <<>>
    /\ setupCalls = 0
    /\ records = <<>>
    /\ consoleOut = <<>>
    /\ fileOut = <<>>

RotIdle ==
    /\ maxBytes = 0
    /\ backupCount = 0
    /\ active = <<>>
    /\ backups = <<>>
    /\ written = <<>>

ProbeIdle ==
    /\ port = 80
    /\ net = "refused"
    /\ sock = "none"
    /\ probeResult = None

SupIdle == SupInit(FALSE, FALSE, FALSE, [iflag |-> {}, lflag |-> {}])

Init ==
    /\ pc = "main"
    /\ \E log \in BOOLEAN, logFile \in BOOLEAN, tty \in BOOLEAN,
          attrs \in TermAttrs : SupInit(log, logFile, tty, attrs)
    /\ CfgIdle
    /\ LogIdle
    /\ RotIdle
    /\ ProbeIdle

\* ------------------------------------------------------ main sequence
\* main, lines 318-324: parse_args, load_config, apply_color_prefixes,
\* write_config (creates the config directory and rewrites config.json).
main ==
    /\ pc = "main"
    /\ pc' = "setup_logging"
    /\ UNCHANGED <<libVars, mainVars, probed, portBound, termVars, childVars, exc,
                   logged, intVars, exitVars>>

\* setup_logging: RotatingFileHandler(log_file_path, mode="a", ...) opens
\* the log file for appending when it is constructed, creating it.
setup_logging ==
    /\ pc = "setup_logging"
    /\ logFileExists' = TRUE
    /\ pc' = "handle_log_option"
    /\ UNCHANGED <<libVars, args_log, logFileAtStart, printed, probed,
                   portBound, termVars, childVars, exc, logged, intVars,
                   exitVars>>

\* tail_log: what it prints for a log file that exists or not.
tail_log(exists) == IF ~exists THEN "notfound" ELSE "lines"

\* handle_log_option: with -log, tail the log and sys.exit(0); otherwise
\* fall through to start_web_server.
handle_log_option ==
    /\ pc = "handle_log_option"
    /\ IF args_log
         THEN /\ printed' = tail_log(logFileExists)
              /\ ProcessEnds(SystemExit(0))
         ELSE /\ pc' = "is_port_in_use"
              /\ UNCHANGED <<printed, exc, exitVars>>
    /\ UNCHANGED <<libVars, args_log, logFileAtStart, logFileExists, probed,
                   portBound, termVars, childVars, logged, intVars>>

\* ------------------------------------------------------ start_web_server
Log(level, msg) == logged' = logged \cup {<<level, msg>>}

\* Variant of AfterProbe without the gate of line 278.
AfterProbe_NoGate(bound) == "prelaunch"

\* Line 278: where control goes on the probe's answer.
AfterProbe(bound) == IF bound THEN "port_in_use" ELSE "prelaunch"

\* is_port_in_use: one connect_ex to localhost:port; 0 means bound.
is_port_in_use ==
    /\ pc = "is_port_in_use"
    /\ \E bound \in BOOLEAN :
          /\ portBound' = Some(bound)
          /\ pc' = AfterProbe(bound)
    /\ probed' = TRUE
    /\ UNCHANGED <<libVars, mainVars, termVars, childVars, exc, logged, intVars,
                   exitVars>>

\* Lines 279-280: the port is bound: log an error and sys.exit(1), outside
\* the try block.
port_in_use ==
    /\ pc = "port_in_use"
    /\ Log("ERROR", "already running")
    /\ ProcessEnds(SystemExit(1))
    /\ UNCHANGED <<libVars, mainVars, probed, portBound, termVars, childVars, intVars>>

\* Variant of prelaunch that goes on to the launch without acquiring the
\* terminal guard.
prelaunch_SkipGuard ==
    /\ pc = "prelaunch"
    /\ logged' = logged \cup {<<"DEBUG", "launching">>, <<"INFO", "starting">>}
    /\ pc' = "Popen"
    /\ UNCHANGED <<libVars, mainVars, probed, portBound, termVars, childVars, exc,
                   intVars, exitVars>>

\* Lines 282-285: compose the command, log the launch.
prelaunch ==
    /\ pc = "prelaunch"
    /\ logged' = logged \cup {<<"DEBUG", "launching">>, <<"INFO", "starting">>}
    /\ pc' = "suppress_ctrl_c_echo"
    /\ UNCHANGED <<libVars, mainVars, probed, portBound, termVars, childVars, exc,
                   intVars, exitVars>>

\* Lines 222-226: new_attrs = attrs[:] is a copy; only new_attrs[3] (lflag)
\* loses ECHOCTL; the captured attrs are what is returned.
ClearEchoCtl(attrs) == [attrs EXCEPT !.lflag = @ \ {"ECHOCTL"}]
\* Variant of SuppressAttrs in which new_attrs is the same list as attrs
\* (no copy), so the returned snapshot carries the modification.
SuppressAttrs_Aliased(attrs) ==
    [applied |-> ClearEchoCtl(attrs), saved |-> ClearEchoCtl(attrs)]

\* What suppress_ctrl_c_echo applies to the terminal and what it returns.
SuppressAttrs(attrs) == [applied |-> ClearEchoCtl(attrs), saved |-> attrs]

\* Variant of TermiosExcept naming a class termios.error does not derive
\* from.
TermiosExcept_OSError == "OSError"

\* The class named by the except clauses of suppress_ctrl_c_echo and
\* restore_terminal (lines 227, 237).
TermiosExcept == "Exception"

\* suppress_ctrl_c_echo, called at line 286 before the try block. Each
\* termios call either succeeds or raises termios.error.
suppress_ctrl_c_echo ==
    /\ pc = "suppress_ctrl_c_echo"
    /\ IF ~isatty
         THEN /\ term_settings' = None
              /\ pc' = "acquired"
              /\ UNCHANGED <<term, tcError, exc, exitVars>>
         ELSE \E getOk \in BOOLEAN, setOk \in BOOLEAN :
                IF getOk /\ setOk
                  THEN /\ term' = SuppressAttrs(term).applied
                       /\ term_settings' = Some(SuppressAttrs(term).saved)
                       /\ pc' = "acquired"
                       /\ UNCHANGED <<tcError, exc, exitVars>>
                  ELSE /\ tcError' = TRUE
                       /\ UNCHANGED term
                       /\ IF IsSubclass("termios.error", TermiosExcept)
                            THEN /\ term_settings' = None
                                 /\ pc' = "acquired"
                                 /\ UNCHANGED <<exc, exitVars>>
                            ELSE /\ UNCHANGED term_settings
                                 /\ ProcessEnds(Raise("termios.error"))
    /\ UNCHANGED <<libVars, mainVars, probed, portBound, isatty, term0, restoreInvoked,
                   restoreApplied, childVars, logged, intVars>>

\* Line 287: term_settings is assigned and the try block is entered.
enter_try ==
    /\ pc = "acquired"
    /\ pc' = "Popen"
    /\ UNCHANGED <<libVars, mainVars, probed, portBound, termVars, childVars, exc,
                   logged, intVars, exitVars>>

\* Exceptions process creation raises: the command is not found, or fork /
\* exec / preexec_fn fails. Popen never raises CalledProcessError.
PopenErrors == {"FileNotFoundError", "OSError", "SubprocessError"}

\* Line 289: subprocess.Popen(command, preexec_fn=os.setsid): the child
\* starts as leader of a new session, or the constructor raises.
Popen ==
    /\ pc = "Popen"
    /\ \/ /\ child' = "running"
          /\ launched' = "ok"
          /\ pc' = "proc_wait"
          /\ UNCHANGED exc
       \/ \E e \in PopenErrors :
             /\ exc' = Raise(e)
             /\ launched' = "failed"
             /\ pc' = "except"
             /\ UNCHANGED child
    /\ UNCHANGED <<libVars, mainVars, probed, portBound, termVars, childStatus,
                   returncode, sigintWait, signals, graceExpired, logged,
                   intVars, exitVars>>

\* The child ends on its own account or is ended by a signal; it stays a
\* zombie until the supervisor reaps it.
child_ends ==
    /\ child = "running"
    /\ pc # "done"
    /\ \E st \in ChildExitCodes \cup ChildSignalStatuses :
          childStatus' = Some(st)
    /\ child' = "zombie"
    /\ UNCHANGED <<pc, libVars, mainVars, probed, portBound, termVars, launched,
                   returncode,
                   sigintWait, signals, graceExpired, exc, logged, intVars,
                   exitVars>>

\* waitpid succeeded: the child is reaped and proc.returncode is set.
Reap ==
    /\ child' = "reaped"
    /\ returncode' = childStatus

\* Popen._wait(timeout) with a timeout that may already be used up: reaps a
\* child that has ended, otherwise leaves everything as it is.
TryReap ==
    IF child = "zombie" THEN Reap ELSE UNCHANGED <<child, returncode>>

\* Line 291: proc.wait() blocks until the child has ended.
proc_wait ==
    /\ pc = "proc_wait"
    /\ child = "zombie"
    /\ Reap
    /\ pc' = "returncode_check"
    /\ UNCHANGED <<libVars, mainVars, probed, portBound, termVars, launched, childStatus,
                   sigintWait, signals, graceExpired, exc, logged, intVars,
                   exitVars>>

\* Variant of ExitAfterWait that clamps a failure to exit code 1.
ExitAfterWait_Clamped(rc) ==
    IF rc \notin {Some(0), None} THEN SystemExit(1) ELSE NoExc

\* Variant of ExitAfterWait that calls sys.exit for every return code.
ExitAfterWait_AlwaysExit(rc) ==
    IF rc = None THEN NoExc ELSE SystemExit(rc[1])

\* Lines 302-305: what the completed child's return code raises.
ExitAfterWait(rc) ==
    IF rc \notin {Some(0), None} THEN SystemExit(rc[1]) ELSE NoExc

returncode_check ==
    /\ pc = "returncode_check"
    /\ exc' = ExitAfterWait(returncode)
    /\ IF ExitAfterWait(returncode) # NoExc
         THEN Log("ERROR", "exited with code")
         ELSE Log("DEBUG", "stopped with return code")
    /\ pc' = "Popen_exit"
    /\ UNCHANGED <<libVars, mainVars, probed, portBound, termVars, childVars, intVars,
                   exitVars>>

\* Popen.send_signal: poll first; a child known to have ended is not
\* signalled.
SendSignal(sig) ==
    /\ TryReap
    /\ signals' = IF child = "running" THEN Append(signals, sig) ELSE signals

\* Variant of proc_terminate that kills at once instead of asking the child
\* to terminate.
proc_terminate_Kill ==
    /\ pc = "proc_terminate"
    /\ TryReap
    /\ signals' = IF child = "running" THEN Append(signals, "SIGKILL")
                                       ELSE signals
    /\ pc' = "proc_wait_timeout"
    /\ UNCHANGED <<libVars, mainVars, probed, portBound, termVars, launched, childStatus,
                   sigintWait, graceExpired, exc, logged, intVars, exitVars>>

\* Line 294, in the KeyboardInterrupt handler: proc.terminate().
proc_terminate ==
    /\ pc = "proc_terminate"
    /\ SendSignal("SIGTERM")
    /\ pc' = "proc_wait_timeout"
    /\ UNCHANGED <<libVars, mainVars, probed, portBound, termVars, launched, childStatus,
                   sigintWait, graceExpired, exc, logged, intVars, exitVars>>

\* Lines 295-298: where control goes when the grace wait returned or raised
\* TimeoutExpired.
AfterGrace(expired) == IF expired THEN "proc_kill" ELSE "stopped"

\* Line 296: proc.wait(timeout=5) returns once the child has ended, or
\* raises TimeoutExpired while it is still running.
proc_wait_timeout ==
    /\ pc = "proc_wait_timeout"
    /\ TryReap
    /\ graceExpired' = (child = "running")
    /\ pc' = AfterGrace(child = "running")
    /\ UNCHANGED <<libVars, mainVars, probed, portBound, termVars, launched, childStatus,
                   sigintWait, signals, exc, logged, intVars, exitVars>>

\* Line 298: proc.kill().
proc_kill ==
    /\ pc = "proc_kill"
    /\ SendSignal("SIGKILL")
    /\ pc' = "stopped"
    /\ UNCHANGED <<libVars, mainVars, probed, portBound, termVars, launched, childStatus,
                   sigintWait, graceExpired, exc, logged, intVars, exitVars>>

\* Line 300: the exit the interrupt handler asks for.
StopExit == SystemExit(0)

\* Lines 299-300: log at debug level and sys.exit(0), inside the with block.
stopped ==
    /\ pc = "stopped"
    /\ Log("DEBUG", "stopped")
    /\ exc' = StopExit
    /\ pc' = "Popen_exit"
    /\ UNCHANGED <<libVars, mainVars, probed, portBound, termVars, childVars, intVars,
                   exitVars>>

\* Variant of Popen_exit for a Popen used without the with statement: the
\* block is left without waiting for the child.
Popen_exit_NoWait ==
    /\ pc = "Popen_exit"
    /\ pc' = IF exc = NoExc THEN "finally" ELSE "except"
    /\ UNCHANGED <<libVars, mainVars, probed, portBound, termVars, childVars, exc,
                   logged, intVars, exitVars>>

\* Popen.__exit__ at the end of the with block (line 289). With a
\* KeyboardInterrupt in flight it waits at most the rest of the short
\* SIGINT allowance and returns; otherwise it waits for the child to end.
Popen_exit ==
    /\ pc = "Popen_exit"
    /\ IF exc.kind = "KeyboardInterrupt"
         THEN /\ IF sigintWait THEN TryReap
                               ELSE UNCHANGED <<child, returncode>>
              /\ sigintWait' = FALSE
         ELSE /\ child \in {"zombie", "reaped"}
              /\ TryReap
              /\ UNCHANGED sigintWait
    /\ pc' = IF exc = NoExc THEN "finally" ELSE "except"
    /\ UNCHANGED <<libVars, mainVars, probed, portBound, termVars, launched, childStatus,
                   signals, graceExpired, exc, logged, intVars, exitVars>>

\* The class named by the except clause of line 306.
LaunchExcept == "CalledProcessError"

\* Lines 306-308: an exception leaving the try body is handled only when it
\* is an instance of the class the except clause names.
except ==
    /\ pc = "except"
    /\ IF IsSubclass(exc.kind, LaunchExcept)
         THEN /\ Log("ERROR", "error starting")
              /\ exc' = SystemExit(1)
         ELSE UNCHANGED <<logged, exc>>
    /\ pc' = "finally"
    /\ UNCHANGED <<libVars, mainVars, probed, portBound, termVars, childVars, intVars,
                   exitVars>>

\* restore_terminal(settings): nothing to do for None; otherwise set the
\* captured attributes, swallowing a failure.
restore_terminal(settings, ok) ==
    IF settings = None THEN term
    ELSE IF ok THEN settings[1]
    ELSE term

\* Lines 309-310: the finally clause calls restore_terminal, then the
\* pending exception (or the normal return to main) ends the process.
finally ==
    /\ pc = "finally"
    /\ restoreInvoked' = TRUE
    /\ \E ok \in BOOLEAN :
          /\ term' = restore_terminal(term_settings, ok)
          /\ restoreApplied' = (term_settings # None /\ ok)
          /\ tcError' = (tcError \/ (term_settings # None /\ ~ok))
          /\ IF term_settings # None /\ ~ok
                /\ ~IsSubclass("termios.error", TermiosExcept)
               THEN ProcessEnds(Raise("termios.error"))
               ELSE ProcessEnds(exc)
    /\ UNCHANGED <<libVars, mainVars, probed, portBound, isatty, term0, term_settings,
                   childVars, logged, intVars>>

\* ------------------------------------------------------------ interrupt
KeyboardInterrupt == Raise("KeyboardInterrupt")

\* Positions of the main thread outside the try block of start_web_server
\* (no handler, no finally clause around them).
OutsideTry == {"main", "setup_logging", "handle_log_option",
               "is_port_in_use", "port_in_use", "prelaunch", "acquired"}

\* Positions inside the with block other than the wait of line 291.
InsideWith == {"returncode_check", "proc_terminate", "proc_wait_timeout",
               "proc_kill", "stopped"}

\* SIGINT reaches the supervisor (the child is in another session and does
\* not get it): Python raises KeyboardInterrupt in the main thread at its
\* current position. No signal handler is installed by ws.py, so where the
\* exception goes is decided by the enclosing try/with blocks alone.
Interrupt ==
    /\ pc # "done"
    /\ nInt < MaxInterrupts
    /\ nInt' = nInt + 1
    /\ intAt' = intAt \cup {pc}
    /\ CASE pc \in OutsideTry ->
              /\ ProcessEnds(KeyboardInterrupt)
              /\ UNCHANGED <<termVars, childVars>>
         [] pc = "suppress_ctrl_c_echo" ->
              \* raised inside suppress_ctrl_c_echo, before or after its
              \* tcsetattr took effect
              /\ \E applied \in BOOLEAN :
                    term' = IF applied /\ isatty
                              THEN SuppressAttrs(term).applied ELSE term
              /\ IF IsSubclass("KeyboardInterrupt", TermiosExcept)
                   THEN /\ pc' = "acquired"
                        /\ UNCHANGED <<exc, exitVars>>
                   ELSE ProcessEnds(KeyboardInterrupt)
              /\ UNCHANGED <<isatty, term0, term_settings, tcError,
                             restoreInvoked, restoreApplied, childVars>>
         [] pc = "Popen" ->
              /\ exc' = KeyboardInterrupt
              /\ pc' = "except"
              /\ UNCHANGED <<termVars, childVars, exitVars>>
         [] pc = "proc_wait" ->
              \* Popen.wait: a brief second wait, then the handler of
              \* line 292 takes the exception
              /\ TryReap
              /\ sigintWait' = FALSE
              /\ pc' = "proc_terminate"
              /\ UNCHANGED <<termVars, launched, childStatus, signals, graceExpired,
                             exc, exitVars>>
         [] pc \in InsideWith ->
              /\ IF pc = "proc_wait_timeout"
                   THEN TryReap ELSE UNCHANGED <<child, returncode>>
              /\ exc' = KeyboardInterrupt
              /\ pc' = "Popen_exit"
              /\ UNCHANGED <<termVars, launched, childStatus, sigintWait, signals,
                             graceExpired, exitVars>>
         [] pc = "Popen_exit" ->
              \* raised inside Popen.__exit__: it replaces the exception
              \* that was in flight
              /\ TryReap
              /\ sigintWait' = FALSE
              /\ exc' = KeyboardInterrupt
              /\ pc' = "except"
              /\ UNCHANGED <<termVars, launched, childStatus, signals, graceExpired,
                             exitVars>>
         [] pc = "except" ->
              /\ exc' = KeyboardInterrupt
              /\ pc' = "finally"
              /\ UNCHANGED <<termVars, childVars, exitVars>>
         [] pc = "finally" ->
              \* raised in the finally clause, before restore_terminal is
              \* called or inside it
              /\ \E entered \in BOOLEAN, ok \in BOOLEAN :
                    /\ restoreInvoked' = entered
                    /\ term' = IF entered
                                 THEN restore_terminal(term_settings, ok)
                                 ELSE term
                    /\ restoreApplied' = (entered /\ ok
                                            /\ term_settings # None)
              /\ ProcessEnds(KeyboardInterrupt)
              /\ UNCHANGED <<isatty, term0, term_settings, tcError,
                             childVars>>
    /\ UNCHANGED <<libVars, mainVars, probed, portBound, logged>>

Next ==
    \/ main
    \/ setup_logging
    \/ handle_log_option
    \/ is_port_in_use
    \/ port_in_use
    \/ prelaunch
    \/ suppress_ctrl_c_echo
    \/ enter_try
    \/ Popen
    \/ child_ends
    \/ proc_wait
    \/ returncode_check
    \/ proc_terminate
    \/ proc_wait_timeout
    \/ proc_kill
    \/ stopped
    \/ Popen_exit
    \/ except
    \/ finally
    \/ Interrupt

Spec == Init /\ [][Next]_vars

\* ---------------------------------------------------------- type invariant
Done == pc = "done"

\* ------------------------------------------------------------- port probe
\* Values parse_args can hand over as args.port: type=int accepts every
\* integer, the default is 80.
Ports == {-1, 0, 1, 80, 1023, 8080, 65535, 65536, 70000}

\* What the host answers to a TCP connect to localhost:port ("noresolve":
\* the name localhost cannot be resolved).
NetAnswers == {"listening", "refused", "timeout", "unreachable", "noresolve"}

\* sock.connect_ex(("localhost", p)): the errno of the connect call, 0 on
\* success; an address that cannot be built (name resolution, port outside
\* 0..65535) raises instead.
connect_ex(p, answer) ==
    IF answer = "noresolve" THEN [raised |-> "gaierror", errno |-> 0]
    ELSE IF p < 0 \/ p > 65535 THEN [raised |-> "OverflowError", errno |-> 0]
    ELSE [raised |-> "none",
          errno |-> CASE answer = "listening" -> 0
                      [] answer = "refused" -> 111
                      [] answer = "timeout" -> 110
                      [] OTHER -> 101]

\* Line 270: the probe socket is created and entered as context manager.
probe_socket ==
    /\ pc = "probe_socket"
    /\ sock' = "open"
    /\ pc' = "probe_connect"
    /\ UNCHANGED <<supVars, cfgVars, logVars, rotVars, port, net,
                   probeResult>>

\* Line 271: return sock.connect_ex(("localhost", port)) == 0.
probe_connect ==
    /\ pc = "probe_connect"
    /\ LET r == connect_ex(port, net)
       IN  probeResult' = Some([raised |-> r.raised,
                                value |-> (r.raised = "none" /\ r.errno = 0)])
    /\ pc' = "probe_exit"
    /\ UNCHANGED <<supVars, cfgVars, logVars, rotVars, port, net, sock>>

\* Lines 270-271: leaving the with block closes the socket, whether by the
\* return or by an exception.
probe_exit ==
    /\ pc = "probe_exit"
    /\ sock' = "closed"
    /\ pc' = IF probeResult[1].raised = "none" THEN "probe_returned"
                                               ELSE "probe_raised"
    /\ UNCHANGED <<supVars, cfgVars, logVars, rotVars, port, net,
                   probeResult>>

InitProbe ==
    /\ pc = "probe_socket"
    /\ SupIdle
    /\ CfgIdle
    /\ LogIdle
    /\ RotIdle
    /\ port \in Ports
    /\ net \in NetAnswers
    /\ sock = "none"
    /\ probeResult = None

NextProbe ==
    \/ probe_socket
    \/ probe_connect
    \/ probe_exit

\* is_port_in_use called with every port and every answer of the network.
SpecProbe == InitProbe /\ [][NextProbe]_vars

\* ---------------------------------------------------------------- logging
MaxSetupCalls == 2
MaxRecords == 2

\* choices of -log-level (after type=str.upper)
LevelNames == {"DEBUG", "INFO", "WARNING", "ERROR", "CRITICAL"}

\* LOG_LEVEL strings a config file can hold.
CfgLevels == {"DEBUG", "debug", "INFO", "Warning", "ERROR", "CRITICAL",
              "WARN", "NOTSET", "VERBOSE", "", "BASIC_FORMAT"}

\* str.upper on the strings above
Upper(s) ==
    CASE s = "debug" -> "DEBUG"
      [] s = "Warning" -> "WARNING"
      [] OTHER -> s

\* record.levelno of the five logging calls
LevelNo(name) ==
    CASE name = "DEBUG" -> 10
      [] name = "INFO" -> 20
      [] name = "WARNING" -> 30
      [] name = "ERROR" -> 40
      [] name = "CRITICAL" -> 50

\* getattr(logging, name, logging.INFO): the module attribute of that name,
\* an integer level, some other object, or the default.
LoggingAttr(name) ==
    CASE name \in LevelNames -> [kind |-> "int", n |-> LevelNo(name)]
      [] name = "WARN" -> [kind |-> "int", n |-> LevelNo("WARNING")]
      [] name = "NOTSET" -> [kind |-> "int", n |-> 0]
      [] name = "BASIC_FORMAT" -> [kind |-> "str", n |-> 0]
      [] OTHER -> [kind |-> "int", n |-> LevelNo("INFO")]

\* Lines 160-161: the CLI override if given (a non-empty string), else the
\* configured LOG_LEVEL; upper-cased and looked up in the logging module.
console_level_NoOverride(cli, cfg) ==
    LoggingAttr(Upper(cfg))

console_level(cli, cfg) ==
    LoggingAttr(Upper(IF cli # None THEN cli[1] ELSE cfg))

ConsoleHandler(level) == [kind |-> "console", level |-> level]
FileHandler == [kind |-> "file", level |-> LevelNo("DEBUG")]

\* Lines 159-190 as one call: every attached handler is removed, then the
\* console handler (level console_level) and the file handler (level DEBUG)
\* are attached. setLevel raises ValueError for a level that is a string
\* naming no level; the handlers were removed by then.
SetupLogging_KeepHandlers ==
    /\ pc \in {"log_start", "logging"}
    /\ setupCalls < MaxSetupCalls
    /\ LET lvl == console_level(cliLevel, cfgLevel)
       IN  IF lvl.kind = "int"
           THEN /\ handlers' = handlers \o <<ConsoleHandler(lvl.n), FileHandler>>
                /\ setupCalls' = setupCalls + 1
                /\ pc' = "logging"
           ELSE /\ handlers' = <<>>
                /\ pc' = "log_raised"
                /\ UNCHANGED setupCalls
    /\ UNCHANGED <<supVars, cfgVars, rotVars, probeVars, cliLevel, cfgLevel,
                   records, consoleOut, fileOut>>

SetupLogging ==
    /\ pc \in {"log_start", "logging"}
    /\ setupCalls < MaxSetupCalls
    /\ LET lvl == console_level(cliLevel, cfgLevel)
       IN  IF lvl.kind = "int"
           THEN /\ handlers' = <<ConsoleHandler(lvl.n), FileHandler>>
                /\ setupCalls' = setupCalls + 1
                /\ pc' = "logging"
           ELSE /\ handlers' = <<>>
                /\ pc' = "log_raised"
                /\ UNCHANGED setupCalls
    /\ UNCHANGED <<supVars, cfgVars, rotVars, probeVars, cliLevel, cfgLevel,
                   records, consoleOut, fileOut>>

\* Handlers of one kind that accept a record of level L.
Accepting(kind, L) ==
    SelectSeq(handlers, LAMBDA h : h.kind = kind /\ LevelNo(L) >= h.level)

\* logger.debug/info/warning/error/critical: the root logger (level DEBUG,
\* line 169) passes the record to each attached handler, which emits it when
\* the record's level reaches the handler's.
Emit(L) ==
    /\ pc = "logging"
    /\ Len(records) < MaxRecords
    /\ LevelNo(L) >= LevelNo("DEBUG")
    /\ records' = Append(records, L)
    /\ LET rec == [id |-> Len(records) + 1, level |-> L]
       IN  /\ consoleOut' = consoleOut \o
                   [i \in 1..Len(Accepting("console", L)) |-> rec]
           /\ fileOut' = fileOut \o
                   [i \in 1..Len(Accepting("file", L)) |-> rec]
    /\ UNCHANGED <<pc, supVars, cfgVars, rotVars, probeVars, cliLevel,
                   cfgLevel, handlers, setupCalls>>

InitLog ==
    /\ pc = "log_start"
    /\ SupIdle
    /\ CfgIdle
    /\ RotIdle
    /\ ProbeIdle
    /\ cliLevel \in {None} \cup {Some(n) : n \in LevelNames}
    /\ cfgLevel \in CfgLevels
    /\ handlers = <<>>
    /\ setupCalls = 0
    /\ records = <<>>
    /\ consoleOut = <<>>
    /\ fileOut = <<>>

NextLog ==
    \/ SetupLogging
    \/ \E L \in LevelNames : Emit(L)

\* setup_logging called repeatedly in one process, records logged in between.
SpecLog == InitLog /\ [][NextLog]_vars

\* --------------------------------------------------------------- rotation
MaxMaxBytes == 4
MaxBackupCount == 2
MaxRecLen == 3
MaxWritten == 4

\* bytes of a file holding the records of f (each with its newline)
RECURSIVE Size(_)
Size(f) == IF f = <<>> THEN 0 ELSE Head(f).len + Size(Tail(f))

\* RotatingFileHandler.shouldRollover: with maxBytes > 0, the record would
\* take the file to maxBytes or beyond.
ShouldRollover(file, len) ==
    maxBytes > 0 /\ Size(file) + len >= maxBytes

\* RotatingFileHandler.doRollover, the backups after it: with
\* backupCount > 0 every .i becomes .(i+1) for i < backupCount (the file
\* already at .(i+1) is removed), and the active file becomes .1; with
\* backupCount = 0 nothing is renamed.
RolledBackups ==
    IF backupCount > 0
    THEN LET shifted == <<active>> \o backups
         IN  SubSeq(shifted, 1,
                    IF Len(shifted) < backupCount THEN Len(shifted)
                                                    ELSE backupCount)
    ELSE backups

\* the active file after doRollover: a new empty file when the old one was
\* renamed; with backupCount = 0 the same file, reopened in append mode.
RolledActive == IF backupCount > 0 THEN <<>> ELSE active

\* RotatingFileHandler.emit for a record of len bytes: roll over when
\* shouldRollover says so, then append the record to the active file.
emit(len) ==
    /\ pc = "rotating"
    /\ Len(written) < MaxWritten
    /\ LET rec == [id |-> Len(written) + 1, len |-> len]
       IN  /\ written' = Append(written, rec)
           /\ IF ShouldRollover(active, len)
              THEN /\ backups' = RolledBackups
                   /\ active' = Append(RolledActive, rec)
              ELSE /\ backups' = backups
                   /\ active' = Append(active, rec)
    /\ UNCHANGED <<pc, supVars, cfgVars, logVars, probeVars, maxBytes,
                   backupCount>>

\* Lines 179-185: the handler is built over a log directory holding no log
\* yet; mode "a" creates the empty active file.
InitRotate ==
    /\ pc = "rotating"
    /\ SupIdle
    /\ CfgIdle
    /\ LogIdle
    /\ ProbeIdle
    /\ maxBytes \in 1..MaxMaxBytes
    /\ backupCount \in 0..MaxBackupCount
    /\ active = <<>>
    /\ backups = <<>>
    /\ written = <<>>

NextRotate == \E len \in 1..MaxRecLen : emit(len)

\* records of every length written through the rotating file handler
SpecRotate == InitRotate /\ [][NextRotate]_vars

\* ---------------------------------------------------------- configuration
MaxRuns == 2
DefaultMaxBytes == 500000
DefaultBackupCount == 5

\* JSON values; a float is held in tenths
JInt(n) == [t |-> "int", n |-> n, s |-> ""]
JFloat(tenths) == [t |-> "float", n |-> tenths, s |-> ""]
JStr(s) == [t |-> "str", n |-> 0, s |-> s]
JNull == [t |-> "null", n |-> 0, s |-> ""]

\* working directories a run can be started from
Cwds == {"/srv", "/tmp"}

\* DEFAULT_CONFIG, a dict in insertion order (lines 39-44)
DEFAULT_CONFIG(dir) ==
    << [k |-> "LOG_LEVEL", v |-> JStr("INFO")],
       [k |-> "MAX_BYTES", v |-> JInt(DefaultMaxBytes)],
       [k |-> "BACKUP_COUNT", v |-> JInt(DefaultBackupCount)],
       [k |-> "CURRENT_DIR", v |-> JStr(dir)] >>

Keys(d) == {d[i].k : i \in 1..Len(d)}

\* d[key] for a key of d
Get(d, key) == d[CHOOSE i \in 1..Len(d) : d[i].k = key].v

\* d[key] = value: in place for a key of d, appended otherwise
SetItem(d, key, value) ==
    IF key \in Keys(d)
    THEN [i \in 1..Len(d) |->
             IF d[i].k = key THEN [k |-> key, v |-> value] ELSE d[i]]
    ELSE Append(d, [k |-> key, v |-> value])

\* dict.update(pairs), the pairs taken in order
RECURSIVE Update(_, _)
Update(d, pairs) ==
    IF pairs = <<>> THEN d
    ELSE Update(SetItem(d, Head(pairs).k, Head(pairs).v), Tail(pairs))

\* json.load of an object text: the members in order, a repeated key
\* keeping its first place and its last value
JsonLoadObject(members) == Update(<<>>, members)

\* json.dump of a dict: its items in order
JsonDump(d) == [kind |-> "object", obj |-> d]

\* int(v) of lines 182-183
IntOf(v) ==
    CASE v.t = "int" -> [raised |-> "none", n |-> v.n]
      [] v.t = "float" ->
            [raised |-> "none",
             n |-> IF v.n >= 0 THEN v.n \div 10 ELSE -((-v.n) \div 10)]
      [] v.t = "str" ->
            IF v.s = "2048" THEN [raised |-> "none", n |-> 2048]
            ELSE IF v.s = "3" THEN [raised |-> "none", n |-> 3]
            ELSE [raised |-> "ValueError", n |-> 0]
      [] OTHER -> [raised |-> "TypeError", n |-> 0]

\* Lines 109-120: the defaults, updated with the file's object when the file
\* exists and parses to one. A JSONDecodeError is passed over; the decoding
\* error of a file that is not UTF-8 is no JSONDecodeError and leaves the
\* function.
load_config ==
    /\ pc = "load_config"
    /\ IF cfgFile.kind = "undecodable"
       THEN /\ pc' = "load_raised"
            /\ UNCHANGED config
       ELSE /\ config' = Some(IF cfgFile.kind = "object"
                              THEN Update(DEFAULT_CONFIG(cwd),
                                          JsonLoadObject(cfgFile.obj))
                              ELSE DEFAULT_CONFIG(cwd))
            /\ pc' = "write_config"
    /\ UNCHANGED <<supVars, logVars, rotVars, probeVars, cwd, cfgFile,
                   handlerArgs, cfgRun, fileAfterRun1>>

\* Lines 99-104 (called at main line 323): the config is dumped over the file.
write_config ==
    /\ pc = "write_config"
    /\ cfgFile' = JsonDump(config[1])
    /\ pc' = "file_handler"
    /\ UNCHANGED <<supVars, logVars, rotVars, probeVars, cwd, config,
                   handlerArgs, cfgRun, fileAfterRun1>>

\* Lines 179-185: int() of the configured MAX_BYTES and BACKUP_COUNT, handed
\* to RotatingFileHandler as they come.
file_handler ==
    /\ pc = "file_handler"
    /\ LET mb == IntOf(Get(config[1], "MAX_BYTES"))
           bc == IntOf(Get(config[1], "BACKUP_COUNT"))
       IN  IF mb.raised = "none" /\ bc.raised = "none"
           THEN /\ handlerArgs' = Some([maxBytes |-> mb.n,
                                        backupCount |-> bc.n])
                /\ pc' = "configured"
           ELSE /\ pc' = "setup_raised"
                /\ UNCHANGED handlerArgs
    /\ UNCHANGED <<supVars, logVars, rotVars, probeVars, cwd, cfgFile,
                   config, cfgRun, fileAfterRun1>>

\* The program is started again, from any directory, over the config file
\* the previous run left.
next_run ==
    /\ pc \in {"configured", "load_raised", "setup_raised"}
    /\ cfgRun < MaxRuns
    /\ cfgRun' = cfgRun + 1
    /\ fileAfterRun1' = IF cfgRun = 1 THEN Some(cfgFile) ELSE fileAfterRun1
    /\ cwd' \in Cwds
    /\ config' = None
    /\ handlerArgs' = None
    /\ pc' = "load_config"
    /\ UNCHANGED <<supVars, logVars, rotVars, probeVars, cfgFile>>

\* members a config file can hold for one key: none, or one of the values
Member(key, values) == {<<>>} \cup {<<[k |-> key, v |-> x]>> : x \in values}

MaxBytesValues ==
    {JInt(1000), JInt(0), JInt(-5), JFloat(5), JFloat(27), JStr("2048"),
     JStr("abc"), JNull}

BackupCountValues == {JInt(2), JInt(0), JInt(-1), JStr("3")}

\* object files: any of the known keys and an unknown one, in either order
ObjectFiles ==
    {IF rev THEN foo \o cd \o bc \o mb \o ll ELSE ll \o mb \o bc \o cd \o foo :
        ll \in Member("LOG_LEVEL", {JStr("DEBUG")}),
        mb \in Member("MAX_BYTES", MaxBytesValues),
        bc \in Member("BACKUP_COUNT", BackupCountValues),
        cd \in Member("CURRENT_DIR", {JStr("/srv"), JStr("/old")}),
        foo \in Member("FOO", {JInt(1)}),
        rev \in BOOLEAN}

\* what ~/.config/ws/config.json can be when a run starts
ConfigFiles ==
    {[kind |-> k, obj |-> <<>>] :
        k \in {"absent", "undecodable", "invalid", "nonobject"}}
    \cup {[kind |-> "object", obj |-> o] : o \in ObjectFiles}

InitConfig ==
    /\ pc = "load_config"
    /\ SupIdle
    /\ LogIdle
    /\ RotIdle
    /\ ProbeIdle
    /\ cwd \in Cwds
    /\ cfgFile \in ConfigFiles
    /\ config = None
    /\ handlerArgs = None
    /\ cfgRun = 1
    /\ fileAfterRun1 = None

NextConfig ==
    \/ load_config
    \/ write_config
    \/ file_handler
    \/ next_run

\* main lines 318-327, run after run over the same config file
SpecConfig == InitConfig /\ [][NextConfig]_vars

\* ================================================================ claims

\* C1: when is_port_in_use reports the port bound, no child process is ever
\* spawned in that run, and the run (when no interrupt cuts lines 279-280
\* short) ends with exit code 1 from sys.exit.
C1_BoundPortNoChildExit1 ==
    portBound = Some(TRUE) =>
        /\ child = "none"
        /\ launched = "no"
        /\ (Done /\ nInt = 0 => exitHow = "sys_exit" /\ exitCode = Some(1))

C1_Witness ==
    Done /\ portBound = Some(TRUE) /\ exitCode = Some(1) /\ child = "none"

\* C2: in a run with no interrupt, a child that exits with code c (0..255)
\* makes the supervisor end with exactly exit code c.
C2_ExitCodePropagated ==
    (Done /\ nInt = 0 /\ childStatus # None /\ childStatus[1] >= 0) =>
        /\ exitCode = childStatus
        /\ (childStatus[1] # 0 => exitHow = "sys_exit")

C2_Witness ==
    Done /\ nInt = 0 /\ childStatus = Some(17) /\ exitCode = Some(17)

\* C3: with one interrupt, delivered during the blocking wait, the run ends
\* with exit code 0 and the child reaped; the first signal sent is SIGTERM,
\* and once the grace wait has expired the child is sent SIGKILL unless it
\* has ended meanwhile.
C3_InterruptStopsAndReaps ==
    (nInt = 1 /\ intAt = {"proc_wait"}) =>
        /\ (signals # <<>> => signals[1] = "SIGTERM")
        /\ (graceExpired /\ pc # "proc_kill" =>
               \/ signals = <<"SIGTERM", "SIGKILL">>
               \/ child \in {"zombie", "reaped"})
        /\ (Done => /\ exitHow = "sys_exit"
                    /\ exitCode = Some(0)
                    /\ child = "reaped")

C3_Witness ==
    /\ Done
    /\ nInt = 1
    /\ intAt = {"proc_wait"}
    /\ graceExpired
    /\ signals = <<"SIGTERM", "SIGKILL">>
    /\ child = "reaped"
    /\ exitCode = Some(0)

\* C4 (as claimed): on every exit after the terminal settings were captured,
\* restore_terminal has been invoked before the process exits.
C4_RestoreOnEveryExit ==
    (Done /\ term_settings # None) => restoreInvoked

\* C5 (as claimed; runs without interrupt): when process creation fails, an
\* error-level record about the failure is logged and the exit code is 1.
C5_LaunchFailureLogged ==
    (Done /\ nInt = 0 /\ launched = "failed") =>
        /\ <<"ERROR", "error starting">> \in logged
        /\ exitCode = Some(1)

\* C6 (as claimed; on the paths without interrupt and with a launched
\* child): start_web_server never returns normally, it ends by sys.exit.
C6_NeverReturns ==
    (Done /\ probed /\ nInt = 0 /\ launched = "ok") => exitHow = "sys_exit"

\* C6 (amended): start_web_server returns normally to main exactly on the
\* path where the child completed with return code 0 and nothing
\* interrupted the run, and the process then ends with exit code 0; on the
\* port-bound, nonzero-return-code and interrupted-wait paths it is left by
\* sys.exit.
C6_ReturnsOnlyOnSuccess ==
    (Done /\ probed) =>
        /\ (exitHow = "return" =>
               /\ returncode = Some(0)
               /\ exitCode = Some(0)
               /\ "proc_wait" \notin intAt)
        /\ (nInt = 0 /\ returncode = Some(0) => exitHow = "return")
        /\ (nInt = 0 /\ portBound = Some(TRUE) => exitHow = "sys_exit")
        /\ (nInt = 0 /\ returncode \notin {None, Some(0)} =>
               exitHow = "sys_exit")
        /\ (intAt = {"proc_wait"} => exitHow = "sys_exit")

C6_Witness ==
    Done /\ exitHow = "return" /\ returncode = Some(0) /\ child = "reaped"

\* C7 (as claimed; already for runs without interrupt): the exit code is 0,
\* 1, or a positive integer equal to the child's own nonzero exit code.
C7_ExitCodesClosed ==
    (Done /\ nInt = 0) =>
        \/ exitCode \in {Some(0), Some(1)}
        \/ /\ childStatus # None
           /\ childStatus[1] > 0
           /\ exitCode = childStatus

\* C8 (as claimed; runs without interrupt): with -log and no log file at
\* startup, the not-found notice is printed, the exit code is 0, and the
\* port is never probed nor a child spawned.
C8_LogNotFoundNotice ==
    (Done /\ args_log /\ ~logFileAtStart /\ nInt = 0) =>
        /\ printed = "notfound"
        /\ exitCode = Some(0)
        /\ ~probed
        /\ child = "none"

\* C9: the captured snapshot equals the terminal's initial attributes;
\* while the guard is held only ECHOCTL is cleared; after a release whose
\* tcsetattr succeeded the attributes equal the initial ones; when stdin is
\* not a terminal nothing changes.
C9_AcquireReleaseRoundTrip ==
    /\ (term_settings # None =>
           /\ term_settings = Some(term0)
           /\ (~restoreApplied =>
                  /\ term.lflag = term0.lflag \ {"ECHOCTL"}
                  /\ term.iflag = term0.iflag))
    /\ (restoreApplied => term = term0)
    /\ (~isatty => term = term0 /\ term_settings = None)

C9_Witness ==
    /\ Done
    /\ restoreApplied
    /\ "ECHOCTL" \in term0.lflag
    /\ term = term0

\* States of C10: no termios.error in flight; nothing captured after a
\* failed acquire; nothing captured means the terminal is left alone.
C10_StateOk ==
    /\ exc.kind # "termios.error"
    /\ (tcError /\ ~restoreInvoked => term_settings = None)
    /\ (term_settings = None /\ "suppress_ctrl_c_echo" \notin intAt =>
           term = term0 /\ ~restoreApplied)

\* Steps of C10: what the two terminal steps may change.
C10_StepOk ==
    /\ (pc = "suppress_ctrl_c_echo" /\ nInt' = nInt =>
           /\ pc' = "acquired"
           /\ UNCHANGED <<childVars, exc, exitVars, logged>>)
    /\ (pc = "finally" /\ pc' = "done" /\ nInt' = nInt =>
           /\ exc' = exc
           /\ UNCHANGED <<childVars, logged>>
           /\ exitHow' # "uncaught" \/ exc.kind \in PopenErrors)

\* C10: a termios failure never surfaces as an exception; after a failed
\* acquire there is nothing to restore and release leaves the terminal
\* alone; and the terminal steps never touch the child, the signals sent,
\* the exception in flight or the way the process ends.
C10_TerminalFailureSwallowed == [](C10_StateOk) /\ [][C10_StepOk]_vars

C10_Witness ==
    /\ Done
    /\ tcError
    /\ term_settings = None
    /\ restoreInvoked
    /\ signals = <<"SIGTERM">>
    /\ exitCode = Some(0)

\* The points other than the blocking wait that C15 names: before the
\* launch, during the terminal-guard acquisition, after the wait has
\* returned, during the shutdown logging.
OtherPoints == {"prelaunch", "suppress_ctrl_c_echo", "returncode_check",
                "stopped"}

\* C15 (as claimed): an interrupt delivered at a point other than the
\* blocking wait does not change how the run ends: a run whose interrupts
\* all arrived at such points does not end by the interrupt.
C15_InterruptOnlyAtWait ==
    (Done /\ nInt > 0 /\ intAt \subseteq OtherPoints) => exitHow # "sigint"

\* Positions of start_web_server before suppress_ctrl_c_echo has returned.
BeforeAcquire == {"is_port_in_use", "port_in_use", "prelaunch",
                  "suppress_ctrl_c_echo"}

\* C17: in a run that launches a child (interrupts, if any, arriving in the
\* blocking wait): the probe answered not-bound before the guard was
\* acquired, the guard was acquired before the launch, the release comes
\* after the wait has ended or was aborted and is the last step before the
\* exit, and the process does not exit without the release.
C17_SupervisionOrder ==
    intAt \subseteq {"proc_wait"} =>
        /\ (pc \in {"suppress_ctrl_c_echo", "acquired", "Popen"} =>
               portBound = Some(FALSE) /\ launched = "no")
        /\ (launched # "no" =>
               /\ portBound = Some(FALSE)
               /\ pc \notin BeforeAcquire
               /\ (isatty /\ ~tcError => term_settings # None))
        /\ (child # "none" => launched = "ok")
        /\ (restoreInvoked => Done)
        /\ (pc = "finally" /\ launched = "ok" => child = "reaped")
        /\ (Done /\ launched = "ok" => restoreInvoked /\ child = "reaped")

C17_Witness ==
    /\ Done
    /\ launched = "ok"
    /\ term_settings # None
    /\ restoreApplied
    /\ intAt = {"proc_wait"}
    /\ child = "reaped"

\* C18: the supervisor signals the child only after an interrupt taken in
\* the blocking wait; the first signal is SIGTERM; SIGKILL is sent only
\* after SIGTERM and only when the grace wait expired with the child still
\* running; without an interrupt, or when the child ended within the grace
\* wait, no SIGKILL is sent.
C18_SignalDiscipline ==
    /\ signals \in {<<>>, <<"SIGTERM">>, <<"SIGTERM", "SIGKILL">>}
    /\ (signals # <<>> => "proc_wait" \in intAt)
    /\ (Len(signals) = 2 => graceExpired)
    /\ (nInt = 0 => signals = <<>>)
    /\ (pc = "proc_kill" => graceExpired /\ signals = <<"SIGTERM">>)

C18_Witness ==
    /\ Done
    /\ signals = <<"SIGTERM">>
    /\ ~graceExpired
    /\ child = "reaped"
    /\ childStatus = Some(-15)

\* C19 (as claimed, for its particular case): after an interrupt in the
\* blocking wait and a second one during the grace wait, the supervisor
\* exits with the guard released and the child reaped.
C19_NeverExitsBeforeChild ==
    (Done /\ intAt = {"proc_wait", "proc_wait_timeout"}) =>
        restoreInvoked /\ child = "reaped"

\* C14 (as claimed; the name localhost resolving): for every integer port,
\* is_port_in_use returns without raising, returns TRUE exactly when the
\* connect succeeded, and has closed the probe socket.
C14_ProbeTotal ==
    (pc \in {"probe_returned", "probe_raised"} /\ net # "noresolve") =>
        /\ pc = "probe_returned"
        /\ probeResult[1].value = (net = "listening")
        /\ sock = "closed"

\* order of the levels as the specification gives it
C11_Rank(name) ==
    CASE name = "DEBUG" -> 1
      [] name = "INFO" -> 2
      [] name = "WARNING" -> 3
      [] name = "ERROR" -> 4
      [] name = "CRITICAL" -> 5

\* the level name selected: the CLI override if given, else the config's
C11_Selected == Upper(IF cliLevel # None THEN cliLevel[1] ELSE cfgLevel)

\* C11: for every record level L and console level C (the CLI override if
\* given, else the configured one), the console sink has emitted the record
\* iff L >= C in DEBUG < INFO < WARNING < ERROR < CRITICAL, and the file sink
\* has emitted every record whatever C is.
C11_SinkLevels ==
    (pc = "logging" /\ C11_Selected \in LevelNames) =>
        \A i \in 1..Len(records) :
            /\ (\E k \in 1..Len(consoleOut) : consoleOut[k].id = i)
                   <=> C11_Rank(records[i]) >= C11_Rank(C11_Selected)
            /\ \E k \in 1..Len(fileOut) :
                   fileOut[k] = [id |-> i, level |-> records[i]]

\* a CLI override above the configured level has kept a record that the
\* configured level admits off the console, and the file has it.
C11_Witness ==
    /\ pc = "logging"
    /\ cliLevel = Some("ERROR")
    /\ cfgLevel = "debug"
    /\ records = <<"WARNING", "ERROR">>
    /\ Len(consoleOut) = 1
    /\ Len(fileOut) = 2

\* C13: after n >= 1 completed calls of setup_logging the root logger has
\* exactly one console sink and one file sink, and every record logged since
\* has been written once per sink, never twice.
C13_OneSinkEach ==
    (pc = "logging" /\ setupCalls >= 1) =>
        /\ Len(SelectSeq(handlers, LAMBDA h : h.kind = "console")) = 1
        /\ Len(SelectSeq(handlers, LAMBDA h : h.kind = "file")) = 1
        /\ Len(handlers) = 2
        /\ \A i \in 1..Len(records) :
               /\ Cardinality({k \in 1..Len(fileOut) : fileOut[k].id = i}) = 1
               /\ Cardinality({k \in 1..Len(consoleOut) :
                                   consoleOut[k].id = i}) <= 1

\* setup_logging has been called twice and records were logged after each.
C13_Witness ==
    /\ pc = "logging"
    /\ setupCalls >= 2
    /\ Len(records) >= 2
    /\ Len(fileOut) = Len(records)
    /\ Len(consoleOut) = Len(records)

\* the records still on disk, oldest first: the backups from the highest
\* number down, then the active file
RECURSIVE C12_Retained(_)
C12_Retained(bs) ==
    IF bs = <<>> THEN active
    ELSE bs[Len(bs)] \o C12_Retained(SubSeq(bs, 1, Len(bs) - 1))

\* C12 (as claimed; every record shorter than MAX_BYTES): for MAX_BYTES > 0
\* and BACKUP_COUNT >= 0, zero included, the active file never exceeds
\* MAX_BYTES, at most BACKUP_COUNT backups exist, and the records on disk
\* are the most recent ones written, none missing in between.
C12_RotationBounds ==
    (maxBytes > 0 /\ \A i \in 1..Len(written) : written[i].len < maxBytes) =>
        /\ Size(active) <= maxBytes
        /\ Len(backups) <= backupCount
        /\ LET kept == C12_Retained(backups)
           IN  /\ Len(kept) <= Len(written)
               /\ kept = SubSeq(written, Len(written) - Len(kept) + 1,
                                Len(written))

C16_KnownKeys == {"LOG_LEVEL", "MAX_BYTES", "BACKUP_COUNT", "CURRENT_DIR"}

\* the value the claim gives a known key: the file's when the file is an
\* object holding the key, else the default
C16_Expected(key) ==
    IF cfgFile.kind = "object" /\ key \in Keys(cfgFile.obj)
    THEN Get(JsonLoadObject(cfgFile.obj), key)
    ELSE Get(DEFAULT_CONFIG(cwd), key)

\* C16 (as claimed; for files holding no unknown key): load_config yields a
\* config for every file content, the defaults overridden by the file's
\* values for known keys and exactly the defaults for a malformed file, and
\* a second run of load_config and write_config leaves the file the first
\* run left.
C16_LoadWriteUpsert ==
    /\ pc # "load_raised"
    /\ (pc = "write_config" /\ Keys(cfgFile.obj) \subseteq C16_KnownKeys) =>
           /\ Keys(config[1]) = C16_KnownKeys
           /\ \A key \in C16_KnownKeys :
                  Get(config[1], key) = C16_Expected(key)
    /\ (pc = "file_handler" /\ cfgRun >= 2) => Some(cfgFile) = fileAfterRun1

\* C20 (as claimed): the rotation settings handed to the rotating file sink
\* satisfy maxBytes > 0 and backupCount >= 0 for every config file content.
C20_RotationSettingsValid ==
    handlerArgs # None =>
        handlerArgs[1].maxBytes > 0 /\ handlerArgs[1].backupCount >= 0

====
